---- MODULE Spec2Model ----
(***************************************************************************)
(* Model of two components of the annotation platform:                     *)
(*   - MessageProcessor (modules/AIController/backend/messageProcessor.py) *)
(*     the job/status tracker that mirrors Celery task state, and          *)
(*   - Reception (modules/Reception/app.py), the project overview and      *)
(*     enrollment routes.                                                  *)
(* The Celery control plane (inspect().stats()/active()), the result       *)
(* backend (get_task_meta / AsyncResult.ready / forget) and the injected   *)
(* login check are the environment; their state is part of the model.      *)
(***************************************************************************)
EXTENDS Integers, Sequences, FiniteSets, TLC

VARIABLES
    jobs,         \* self.jobs: project -> list of job handles
    messages,     \* self.messages: project -> (task id -> Status Record)
    on_complete,  \* self.on_complete: job id -> callback or None
    backend,      \* result backend: task id -> stored task meta (or NoMeta)
    active,       \* inspect().active(): worker -> list of task descriptors
    stats,        \* inspect().stats(): the set of connected workers
    callers,      \* request threads inside task_id / register_job
    demoMode,     \* Reception.demoMode
    login_check,  \* Reception.login_check
    ret           \* the last operation, its arguments and what it returned

trackerVars == <<jobs, messages, on_complete>>
celeryVars == <<backend, active, stats>>
receptionVars == <<demoMode, login_check>>
vars == <<jobs, messages, on_complete, backend, active, stats, callers,
          demoMode, login_check, ret>>

-----------------------------------------------------------------------------
(* Bounds and universes *)

MaxJobs == 2        \* handles kept in self.jobs, over all projects
MaxActive == 2      \* tasks active on the workers at one time
MaxLen == 1         \* length of a text (cookie, failure detail)

Projects == {"p1", "p2"}
UUIDs == {"u1", "u2"}
TaskTypes == {"train", "inference"}
WorkerSeq == <<"celery@w1", "celery@w2">>
Workers == {WorkerSeq[i] : i \in 1..Len(WorkerSeq)}
Callbacks == {"None", "cb"}

\* celery.states
PENDING == "PENDING"
SUCCESS == "SUCCESS"
FAILURE == "FAILURE"

\* project + '__' + str(uuid.uuid1())
MkId(project, u) == <<project, "__", u>>
TaskIds == {MkId(p, u) : p \in Projects, u \in UUIDs}

-----------------------------------------------------------------------------
(* Python dicts as functions with a growing domain *)

EmptyMap == [k \in {} |-> 0]
Put(d, k, v) == [x \in (DOMAIN d) \cup {k} |-> IF x = k THEN v ELSE d[x]]
Keys(d) == DOMAIN d

\* len(self.jobs), the number of handles over all projects
NumHandles(js) ==
    LET RECURSIVE Sum(_)
        Sum(ps) == IF ps = {} THEN 0
                   ELSE LET p == CHOOSE q \in ps : TRUE
                        IN Len(js[p]) + Sum(ps \ {p})
    IN Sum(DOMAIN js)

\* str(current_time()): a logical clock, the number of handles registered so
\* far, so that a later registration carries a later time
Now(js) == NumHandles(js)

-----------------------------------------------------------------------------
(* html.escape(s), quote=True: & < > " ' are replaced, in that order of      *)
(* precedence, character by character.  A text is a sequence of characters. *)

Alphabet == {"a", "<", ">", "&"}

EscapeChar(c) ==
    CASE c = "&" -> <<"&", "a", "m", "p", ";">>
      [] c = "<" -> <<"&", "l", "t", ";">>
      [] c = ">" -> <<"&", "g", "t", ";">>
      [] c = "\"" -> <<"&", "q", "u", "o", "t", ";">>
      [] c = "'" -> <<"&", "#", "x", "2", "7", ";">>
      [] OTHER -> <<c>>

RECURSIVE Escape(_)
Escape(s) == IF s = <<>> THEN <<>> ELSE EscapeChar(Head(s)) \o Escape(Tail(s))

TextsUpTo(n) == UNION {[1..k -> Alphabet] : k \in 0..n}

-----------------------------------------------------------------------------
(* Values *)

\* fixed phrases, each one token of a text
SendingJob == <<"sending job to worker">>
JobAtWorker == <<"job at worker">>
UnknownError == <<"an unknown error occurred">>

\* a job handle: AsyncResult(id) has no children; a GroupResult has some
AsyncResult(id) == [id |-> id]
GroupResult(id, children) == [id |-> id, children |-> children]
\* hasattr(job, 'children') and job.children is not None
HasChildren(job) == "children" \in DOMAIN job

\* a task as inspect().active() describes it
TrainName == "AIController.call_train"
InferenceName == "AIController.call_inference"
NameOf(u) == IF u = "u1" THEN TrainName ELSE InferenceName
WorkerTask(id) == [id |-> id, routing_key |-> id[1], name |-> NameOf(id[3])]
\* the tasks the workers run in this model: one train task of p1 and one
\* inference task of p2
WorkerTasks == {WorkerTask(MkId("p1", "u1")), WorkerTask(MkId("p2", "u2"))}

\* 'train' if 'train' in task['name'] else 'inference'
TypeOfName(name) == IF name = TrainName THEN "train" ELSE "inference"

\* key.replace('celery@', '')
WorkerName(key) == IF key = "celery@w1" THEN "w1" ELSE "w2"

\* what the result backend stores for a task: nothing, or status and result,
\* with a failure detail under 'meta' when the worker supplied one
NoMeta == EmptyMap
\* a failure detail is a string or an exception carrying one; str() of
\* either is the text
Details == {[kind |-> "str", text |-> <<"<", "a", ">">>],
            [kind |-> "exc", text |-> <<"a", "&">>]}
Str(d) == d["text"]
Progress == [message |-> <<"a">>]
Markup == [message |-> <<"<", "a", ">">>]
Reports ==
    {[status |-> PENDING, result |-> Progress],
     [status |-> SUCCESS, result |-> Markup],
     [status |-> FAILURE, result |-> Markup]}
    \cup {[status |-> FAILURE, result |-> Markup, meta |-> d] : d \in Details}

-----------------------------------------------------------------------------
(* Celery: AsyncResult(key).ready() and .forget(), inspect().active() *)

\* AsyncResult.ready(): the stored state is a terminal one
Ready(bk, id) ==
    /\ "status" \in DOMAIN bk[id]
    /\ bk[id]["status"] \in {SUCCESS, FAILURE}

\* AsyncResult.forget(): the backend releases what it stored for the task
Forget(bk, id) == [bk EXCEPT ![id] = NoMeta]

\* the tasks of the connected workers, in iteration order
RECURSIVE ActiveFrom(_, _, _)
ActiveFrom(i, st, act) ==
    IF i > Len(WorkerSeq) THEN <<>>
    ELSE (IF WorkerSeq[i] \in st THEN act[WorkerSeq[i]] ELSE <<>>)
         \o ActiveFrom(i + 1, st, act)
ActiveList(st, act) == ActiveFrom(1, st, act)

NumActive(act) == Len(ActiveFrom(1, Workers, act))
ActiveIds(act) ==
    LET l == ActiveFrom(1, Workers, act) IN {l[i]["id"] : i \in 1..Len(l)}

-----------------------------------------------------------------------------
(* MessageProcessor: the effect of each method on the tables *)

Get(d, k, default) == IF k \in DOMAIN d THEN d[k] ELSE default

\* if not project in self.messages: self.messages[project] = {}
EnsureProject(ms, project) ==
    IF project \in DOMAIN ms THEN ms ELSE Put(ms, project, EmptyMap)

HandleIds(js, project) ==
    IF project \in DOMAIN js
    THEN {js[project][i]["id"] : i \in 1..Len(js[project])}
    ELSE {}

Tracked(ms, project) == IF project \in DOMAIN ms THEN DOMAIN ms[project] ELSE {}

\* the record register_job writes
RegisteredRecord(taskType, now) ==
    [type |-> taskType, submitted |-> now, status |-> PENDING,
     meta |-> [message |-> SendingJob]]

\* the record pollNow and __add_worker_task write for a task seen at a worker;
\* the start-time computation names an undefined 'datetime', so the fallback
\* str(current_time()) is what is stored
WorkerRecord(task, now) ==
    [type |-> TypeOfName(task["name"]), submitted |-> now, status |-> PENDING,
     meta |-> [message |-> JobAtWorker]]

\* register_job, lines 162-165
RegisterJobJobs(js, project, job) ==
    Put(js, project, Append(Get(js, project, <<>>), job))

\* as register_job would be with a plain assignment in place of lines 188-195
RegisterJobMessages_Overwrite(ms, project, job, taskType, now) ==
    LET m1 == EnsureProject(ms, project)
        inner == m1[project]
        rec == RegisteredRecord(taskType, now)
    IN IF HasChildren(job)
       THEN Put(m1, project,
                [k \in (DOMAIN inner) \cup job["children"] |->
                    IF k \in job["children"] THEN rec ELSE inner[k]])
       ELSE Put(m1, project, Put(inner, job["id"], rec))

\* as register_job would be with 'if' in place of 'elif' at line 188
RegisterJobMessages_OwnId(ms, project, job, taskType, now) ==
    LET m1 == EnsureProject(ms, project)
        inner == m1[project]
        rec == RegisteredRecord(taskType, now)
        withChildren ==
            IF HasChildren(job)
            THEN [k \in (DOMAIN inner) \cup job["children"] |->
                     IF k \in job["children"] THEN rec ELSE inner[k]]
            ELSE inner
    IN IF job["id"] \notin DOMAIN withChildren
       THEN Put(m1, project, Put(withChildren, job["id"], rec))
       ELSE Put(m1, project, withChildren)

\* register_job, lines 167-195
RegisterJobMessages(ms, project, job, taskType, now) ==
    LET m1 == EnsureProject(ms, project)
        inner == m1[project]
        rec == RegisteredRecord(taskType, now)
    IN IF HasChildren(job)
       THEN Put(m1, project,
                [k \in (DOMAIN inner) \cup job["children"] |->
                    IF k \in job["children"] THEN rec ELSE inner[k]])
       ELSE IF job["id"] \notin DOMAIN inner
            THEN Put(m1, project, Put(inner, job["id"], rec))
            ELSE m1

\* register_job, line 197
RegisterJobCallback(oc, job, cb) == Put(oc, job["id"], cb)

\* as pollNow would be with the handle appended outside the test of line 245
PollNowTask_Reappend(st, t, now) ==
    LET taskID == t["id"]
        project == t["routing_key"]
        m1 == EnsureProject(st.messages, project)
    IN [messages |->
            IF taskID \notin DOMAIN m1[project]
            THEN Put(m1, project,
                     Put(m1[project], taskID, WorkerRecord(t, now)))
            ELSE m1,
        jobs |-> Put(st.jobs, project,
                     Append(Get(st.jobs, project, <<>>), AsyncResult(taskID)))]

\* pollNow, lines 239-261, for one task t of a worker's list
PollNowTask(st, t, now) ==
    LET taskID == t["id"]
        project == t["routing_key"]
        m1 == EnsureProject(st.messages, project)
    IN IF taskID \notin DOMAIN m1[project]
       THEN [messages |-> Put(m1, project,
                              Put(m1[project], taskID, WorkerRecord(t, now))),
             jobs |-> Put(st.jobs, project,
                          Append(Get(st.jobs, project, <<>>),
                                 AsyncResult(taskID)))]
       ELSE [messages |-> m1, jobs |-> st.jobs]

RECURSIVE PollNowLoop(_, _, _)
PollNowLoop(st, tasks, now) ==
    IF tasks = <<>> THEN st
    ELSE PollNowLoop(PollNowTask(st, Head(tasks), now), Tail(tasks), now)

\* pollNow, lines 232-261
PollNowResult(js, ms, sts, act, now) ==
    IF sts # {}
    THEN PollNowLoop([jobs |-> js, messages |-> ms], ActiveList(sts, act), now)
    ELSE [jobs |-> js, messages |-> ms]

\* task_ongoing, lines 221-228, on the table left by the sweep
AnyOngoing(ms, project, taskType) ==
    IF project \notin DOMAIN ms THEN FALSE
    ELSE \E key \in DOMAIN ms[project] :
            /\ ms[project][key]["type"] = taskType
            /\ ms[project][key]["status"] \notin {SUCCESS, FAILURE}

\* task_id, line 206
IdUnused(js, project, id) ==
    project \notin DOMAIN js \/ id \notin HandleIds(js, project)

-----------------------------------------------------------------------------
(* MessageProcessor: polling the workers and the result backend *)

\* __add_worker_task, lines 50-70
AddWorkerTask(st, task, now) ==
    LET project == task["routing_key"]
        m1 == EnsureProject(st.messages, project)
    IN [messages |->
            IF task["id"] \notin DOMAIN m1[project]
            THEN Put(m1, project,
                     Put(m1[project], task["id"], WorkerRecord(task, now)))
            ELSE m1,
        backend |->
            IF Ready(st.backend, task["id"])
            THEN Forget(st.backend, task["id"])
            ELSE st.backend]

RECURSIVE AddWorkerTasks(_, _, _)
AddWorkerTasks(st, tasks, now) ==
    IF tasks = <<>> THEN st
    ELSE AddWorkerTasks(AddWorkerTask(st, Head(tasks), now), Tail(tasks), now)

\* poll_worker_status, lines 83-89: the worker's active tasks of the project
ActiveOfProject(tasks, project) ==
    LET keep == SelectSeq(tasks, LAMBDA t : t["routing_key"] = project)
    IN [i \in 1..Len(keep) |-> keep[i]["id"]]

\* as poll_worker_status would be with __add_worker_task called inside the
\* project test of line 88
PollWorkerStatusResult_OwnProject(ms, bk, project, sts, act, scheduled, now) ==
    IF sts # {}
    THEN LET st == AddWorkerTasks([messages |-> ms, backend |-> bk],
                                  SelectSeq(ActiveList(sts, act),
                                            LAMBDA t : t["routing_key"] = project),
                                  now)
         IN [messages |-> st.messages, backend |-> st.backend,
             workerStatus |->
                 [n \in {WorkerName(key) : key \in sts} |->
                     LET key == CHOOSE k \in sts : WorkerName(k) = n
                     IN [active_tasks |-> ActiveOfProject(act[key], project),
                         scheduled_tasks |-> scheduled[key]]]]
    ELSE [messages |-> ms, backend |-> bk, workerStatus |-> EmptyMap]

\* poll_worker_status, lines 73-106; yields the tables and the snapshot
PollWorkerStatusResult(ms, bk, project, sts, act, scheduled, now) ==
    IF sts # {}
    THEN LET st == AddWorkerTasks([messages |-> ms, backend |-> bk],
                                  ActiveList(sts, act), now)
         IN [messages |-> st.messages, backend |-> st.backend,
             workerStatus |->
                 [n \in {WorkerName(key) : key \in sts} |->
                     LET key == CHOOSE k \in sts : WorkerName(k) = n
                     IN [active_tasks |-> ActiveOfProject(act[key], project),
                         scheduled_tasks |-> scheduled[key]]]]
    ELSE [messages |-> ms, backend |-> bk, workerStatus |-> EmptyMap]

\* __poll_tasks, lines 119-120: the tracked tasks the backend has meta for
WithMeta(ms, bk, project) ==
    {key \in DOMAIN ms[project] : DOMAIN bk[key] # {}}

\* as __poll_tasks would be without html.escape at line 126
PollTasksInfo_Raw(msg) ==
    IF msg["status"] = FAILURE
    THEN IF "meta" \in DOMAIN msg
         THEN [message |-> Str(msg["meta"])]
         ELSE [message |-> UnknownError]
    ELSE msg["result"]

\* __poll_tasks, lines 123-130
PollTasksInfo(msg) ==
    IF msg["status"] = FAILURE
    THEN IF "meta" \in DOMAIN msg
         THEN [message |-> Escape(Str(msg["meta"]))]
         ELSE [message |-> UnknownError]
    ELSE msg["result"]

\* __poll_tasks, lines 132-137
PollTasksEntry(job, msg) ==
    [type |-> job["type"], submitted |-> job["submitted"],
     status |-> msg["status"], meta |-> PollTasksInfo(msg)]

\* as __poll_tasks would be with forget() called outside the test of line 141
PollTasksBackend_All(bk, found) ==
    [id \in DOMAIN bk |-> IF id \in found THEN NoMeta ELSE bk[id]]

\* __poll_tasks, lines 139-145: the backend after the ready tasks are forgotten
PollTasksBackend(bk, found) ==
    [id \in DOMAIN bk |->
        IF id \in found /\ Ready(bk, id) THEN NoMeta ELSE bk[id]]

\* __poll_tasks, lines 109-146
PollTasks(ms, bk, project) ==
    IF project \notin DOMAIN ms
    THEN [status |-> EmptyMap, task_ongoing |-> FALSE, backend |-> bk]
    ELSE LET found == WithMeta(ms, bk, project)
         IN [status |-> [key \in found |->
                            PollTasksEntry(ms[project][key], bk[key])],
             task_ongoing |-> \E key \in found : ~Ready(bk, key),
             backend |-> PollTasksBackend(bk, found)]

\* inspect().scheduled(): a list per worker
NoScheduled == [w \in Workers |-> <<>>]

\* poll_status, lines 149-157
PollStatusResult(ms, bk, project, sts, act, now) ==
    LET first == PollTasks(ms, bk, project)
    IN IF ~first.task_ongoing
       THEN LET sweep == PollWorkerStatusResult(ms, first.backend, project,
                                                sts, act, NoScheduled, now)
                second == PollTasks(sweep.messages, sweep.backend, project)
            IN [status |-> second.status, messages |-> sweep.messages,
                backend |-> second.backend]
       ELSE [status |-> first.status, messages |-> ms,
             backend |-> first.backend]

-----------------------------------------------------------------------------
(* The environment: workers connect, start and finish tasks *)

Celery == [op |-> "celery"]

WorkerConnect(w) ==
    /\ w \notin stats
    /\ stats' = stats \cup {w}
    /\ ret' = Celery
    /\ UNCHANGED <<trackerVars, backend, active, callers, receptionVars>>

WorkerDisconnect(w) ==
    /\ w \in stats
    /\ stats' = stats \ {w}
    /\ ret' = Celery
    /\ UNCHANGED <<trackerVars, backend, active, callers, receptionVars>>

TaskStart(w, t) ==
    /\ t["id"] \notin ActiveIds(active)
    /\ NumActive(active) < MaxActive
    /\ active' = [active EXCEPT ![w] = Append(@, t)]
    /\ ret' = Celery
    /\ UNCHANGED <<trackerVars, backend, stats, callers, receptionVars>>

TaskEnd(w) ==
    /\ active[w] # <<>>
    /\ \E i \in 1..Len(active[w]) :
          active' = [active EXCEPT ![w] =
                        SubSeq(@, 1, i - 1) \o SubSeq(@, i + 1, Len(@))]
    /\ ret' = Celery
    /\ UNCHANGED <<trackerVars, backend, stats, callers, receptionVars>>

\* a worker stores the state of a task the tracker follows or a worker runs
BackendStore(id, report) ==
    /\ \/ id \in ActiveIds(active)
       \/ \E p \in DOMAIN messages : id \in DOMAIN messages[p]
    /\ backend[id] # report
    /\ backend' = [backend EXCEPT ![id] = report]
    /\ ret' = Celery
    /\ UNCHANGED <<trackerVars, active, stats, callers, receptionVars>>

-----------------------------------------------------------------------------
(* MessageProcessor: one action per method call *)

SingleJobs == {AsyncResult(id) : id \in TaskIds}
\* groups: of one project's other task, of two tasks of two projects, empty
GroupJobs ==
    {GroupResult(MkId("p1", "u1"), {MkId("p1", "u2")})}
    \cup {GroupResult(MkId("p2", "u1"), {MkId("p1", "u1"), MkId("p1", "u2")}),
          GroupResult(MkId("p1", "u2"), {})}

RegisterJob(project, job, taskType, cb, now) ==
    /\ NumHandles(jobs) < MaxJobs
    /\ jobs' = RegisterJobJobs(jobs, project, job)
    /\ messages' = RegisterJobMessages(messages, project, job, taskType, now)
    /\ on_complete' = RegisterJobCallback(on_complete, job, cb)
    /\ ret' = [op |-> "register_job", project |-> project, job |-> job,
               taskType |-> taskType,
               fresh |-> IF HasChildren(job)
                         THEN job["children"] \cap Tracked(messages, project) = {}
                         ELSE job["id"] \notin Tracked(messages, project),
               broadcast |-> "add_projects"]
    /\ UNCHANGED <<celeryVars, callers, receptionVars>>

PollNow(now) ==
    LET r == PollNowResult(jobs, messages, stats, active, now)
    IN /\ NumHandles(r.jobs) <= MaxJobs
       /\ jobs' = r.jobs
       /\ messages' = r.messages
       /\ ret' = [op |-> "pollNow"]
       /\ UNCHANGED <<on_complete, celeryVars, callers, receptionVars>>

TaskOngoing(project, taskType, now) ==
    LET r == PollNowResult(jobs, messages, stats, active, now)
    IN /\ NumHandles(r.jobs) <= MaxJobs
       /\ jobs' = r.jobs
       /\ messages' = r.messages
       /\ ret' = [op |-> "task_ongoing", project |-> project,
                  taskType |-> taskType,
                  result |-> AnyOngoing(r.messages, project, taskType)]
       /\ UNCHANGED <<on_complete, celeryVars, callers, receptionVars>>

PollWorkerStatus(project, scheduled, now) ==
    LET r == PollWorkerStatusResult(messages, backend, project, stats, active,
                                    scheduled, now)
    IN /\ messages' = r.messages
       /\ backend' = r.backend
       /\ ret' = [op |-> "poll_worker_status", project |-> project,
                  result |-> r.workerStatus]
       /\ UNCHANGED <<jobs, on_complete, active, stats, callers, receptionVars>>

PollStatus(project, now) ==
    LET r == PollStatusResult(messages, backend, project, stats, active, now)
    IN /\ messages' = r.messages
       /\ backend' = r.backend
       /\ ret' = [op |-> "poll_status", project |-> project,
                  result |-> r.status]
       /\ UNCHANGED <<jobs, on_complete, active, stats, callers, receptionVars>>

-----------------------------------------------------------------------------
(* The tracker after construction, lines 35-47, with no worker connected *)

NoCallers == EmptyMap

Init ==
    /\ jobs = EmptyMap
    /\ messages = EmptyMap
    /\ on_complete = EmptyMap
    /\ backend = [id \in TaskIds |-> NoMeta]
    /\ active = [w \in Workers |-> <<>>]
    /\ stats = {}
    /\ callers = NoCallers
    /\ demoMode = FALSE
    /\ login_check = "None"
    /\ ret = [op |-> "init"]

Workers_ ==
    \/ \E w \in Workers : WorkerConnect(w)
    \/ \E w \in Workers : WorkerDisconnect(w)
    \/ \E w \in Workers, t \in WorkerTasks : TaskStart(w, t)
    \/ \E w \in Workers : TaskEnd(w)

(* Registration and sweeps: register_job and pollNow against the workers *)
Next ==
    \/ Workers_
    \/ \E project \in Projects, job \in SingleJobs,
          taskType \in TaskTypes, cb \in Callbacks :
          RegisterJob(project, job, taskType, cb, Now(jobs))
    \/ \E project \in Projects, job \in GroupJobs, taskType \in TaskTypes :
          RegisterJob(project, job, taskType, "None", Now(jobs))
    \/ PollNow(Now(jobs))

Spec == Init /\ [][Next]_vars

(* Status polling: poll_status, poll_worker_status and task_ongoing against *)
(* the backend.                                                            *)
(* One worker runs the train task of p1; each task id is registered under  *)
(* its own project with the type its name declares.                        *)
PollWorker == "celery@w1"
PollTask == WorkerTask(MkId("p1", "u1"))

NextPoll ==
    \/ WorkerConnect(PollWorker)
    \/ WorkerDisconnect(PollWorker)
    \/ TaskStart(PollWorker, PollTask)
    \/ TaskEnd(PollWorker)
    \/ \E id \in TaskIds, report \in Reports : BackendStore(id, report)
    \/ \E project \in Projects, u \in UUIDs :
          RegisterJob(project, AsyncResult(MkId(project, u)),
                      TypeOfName(NameOf(u)), "None", Now(jobs))
    \/ \E project \in Projects :
          PollWorkerStatus(project, NoScheduled, Now(jobs))
    \/ \E project \in Projects : PollStatus(project, Now(jobs))
    \/ \E project \in Projects, taskType \in TaskTypes :
          TaskOngoing(project, taskType, Now(jobs))

SpecPoll == Init /\ [][NextPoll]_vars

(* Worker sweeps: poll_worker_status against two workers running tasks of  *)
(* two projects, next to registrations and stored results.                 *)
\* what the backend holds for a running task: progress, or its result
SweepReports == {r \in Reports : r["status"] \in {PENDING, SUCCESS}}

NextSweep ==
    \/ Workers_
    \/ \E t \in WorkerTasks, report \in SweepReports :
          BackendStore(t["id"], report)
    \/ \E project \in Projects, u \in UUIDs :
          RegisterJob(project, AsyncResult(MkId(project, u)),
                      TypeOfName(NameOf(u)), "None", Now(jobs))
    \/ \E project \in Projects :
          PollWorkerStatus(project, NoScheduled, Now(jobs))

SpecSweep == Init /\ [][NextSweep]_vars

-----------------------------------------------------------------------------
(* Reception: the login check and the routes of _initBottle *)

LoginFuns == {"checkA", "checkB"}
\* what a call of the installed function does for the request's session
Outcomes == {"True", "False", "raise"}

\* request.get_cookie('username') and request.query['t']: absent or a text
Absent == [set |-> FALSE, value |-> <<>>]
Given(text) == [set |-> TRUE, value |-> text]
Cookies == {Absent} \cup {Given(t) : t \in TextsUpTo(MaxLen)}
Tokens == {Absent, Given(<<"<">>)}

DemoName == <<"Demo mode">>
NoName == <<>>

\* self.login_check(...): calling None raises TypeError
CallLoginCheck(lc, outcome) == IF lc = "None" THEN "raise" ELSE outcome

\* addLoginCheckFun, lines 34-36
AddLoginCheckFunResult(dm, lc, fun) == IF ~dm THEN fun ELSE lc

\* html.escape(request.get_cookie('username')): None has no replace()
EscapeCookie(cookie) ==
    IF cookie["set"] THEN [raised |-> FALSE, text |-> Escape(cookie["value"])]
    ELSE [raised |-> TRUE, text |-> NoName]

Rendered(username) == [status |-> 200, username |-> username]
ServerError == [status |-> 500, username |-> NoName]

\* as route / would be with the login check tested before demo mode and
\* outside the try block
ProjectsResponse_LoginFirst(dm, lc, outcome, cookie) ==
    LET r == CallLoginCheck(lc, outcome)
    IN IF r = "raise" THEN ServerError
       ELSE IF dm THEN Rendered(DemoName)
            ELSE IF r = "True"
                 THEN IF EscapeCookie(cookie).raised THEN Rendered(NoName)
                      ELSE Rendered(EscapeCookie(cookie).text)
                 ELSE Rendered(NoName)

\* route /, lines 46-55
ProjectsResponse(dm, lc, outcome, cookie) ==
    IF dm THEN Rendered(DemoName)
    ELSE LET r == CallLoginCheck(lc, outcome)
         IN IF r = "raise" THEN Rendered(NoName)
            ELSE IF r = "True"
                 THEN IF EscapeCookie(cookie).raised THEN Rendered(NoName)
                      ELSE Rendered(EscapeCookie(cookie).text)
                 ELSE Rendered(NoName)

\* route /getProjects, lines 73-79
GetProjectsUsername(lc, outcome, cookie) ==
    LET r == CallLoginCheck(lc, outcome)
    IN IF r = "raise" THEN NoName
       ELSE IF r = "True"
            THEN IF EscapeCookie(cookie).raised THEN NoName
                 ELSE EscapeCookie(cookie).text
            ELSE NoName

\* route /getProjects, lines 80-83: loginCheck(superuser=True) is called
\* outside the try block, so its exception leaves the route
GetProjectsResponse(lc, outcome, superOutcome, cookie) ==
    LET su == CallLoginCheck(lc, superOutcome)
    IN IF su = "raise"
       THEN [status |-> 500, username |-> NoName, isSuperUser |-> "raise"]
       ELSE [status |-> 200,
             username |-> GetProjectsUsername(lc, outcome, cookie),
             isSuperUser |-> su]

Redirect(location) == [kind |-> "redirect", code |-> 303, location |-> location]
Abort(code) == [kind |-> "error", code |-> code, location |-> <<>>]

\* as the route would be without 'except HTTPResponse' at lines 109-110:
\* the redirects and abort(401) would end in abort(400)
EnrollResult_NoHttpCatch(lc, project, outcome, cookie, service) ==
    LET r == CallLoginCheck(lc, outcome)
    IN IF r = "raise" THEN [response |-> Abort(400), invoked |-> FALSE]
       ELSE IF r = "False"
            THEN [response |-> Abort(400), invoked |-> FALSE]
            ELSE IF EscapeCookie(cookie).raised
                 THEN [response |-> Abort(400), invoked |-> FALSE]
                 ELSE [response |-> Abort(400), invoked |-> TRUE]

\* route /<project>/enroll, lines 93-113; service is what
\* middleware.enroll_in_project does when it is called
EnrollResult(lc, project, outcome, cookie, service) ==
    LET r == CallLoginCheck(lc, outcome)
    IN IF r = "raise" THEN [response |-> Abort(400), invoked |-> FALSE]
       ELSE IF r = "False"
            THEN [response |-> Redirect(<<"/">>), invoked |-> FALSE]
            ELSE IF EscapeCookie(cookie).raised
                 THEN [response |-> Abort(400), invoked |-> FALSE]
                 ELSE IF service = "raise"
                      THEN [response |-> Abort(400), invoked |-> TRUE]
                      ELSE IF service = "False"
                           THEN [response |-> Abort(401), invoked |-> TRUE]
                           ELSE [response |->
                                     Redirect(<<"/", project, "/interface">>),
                                 invoked |-> TRUE]

\* lines 100-103: the token handed to the service
ProvidedToken(token) ==
    IF token["set"] THEN Given(Escape(token["value"])) ELSE Absent

AddLoginCheckFun(fun) ==
    /\ login_check' = AddLoginCheckFunResult(demoMode, login_check, fun)
    /\ ret' = [op |-> "addLoginCheckFun", fun |-> fun]
    /\ UNCHANGED <<trackerVars, celeryVars, callers, demoMode>>

LoginCheck(outcome) ==
    /\ ret' = [op |-> "loginCheck",
               result |-> CallLoginCheck(login_check, outcome)]
    /\ UNCHANGED <<trackerVars, celeryVars, callers, receptionVars>>

RouteProjects(outcome, cookie) ==
    /\ ret' = [op |-> "/", outcome |-> outcome, cookie |-> cookie,
               response |-> ProjectsResponse(demoMode, login_check, outcome,
                                             cookie)]
    /\ UNCHANGED <<trackerVars, celeryVars, callers, receptionVars>>

RouteGetProjects(outcome, superOutcome, cookie) ==
    /\ ret' = [op |-> "/getProjects", outcome |-> outcome,
               superOutcome |-> superOutcome, cookie |-> cookie,
               response |-> GetProjectsResponse(login_check, outcome,
                                                superOutcome, cookie)]
    /\ UNCHANGED <<trackerVars, celeryVars, callers, receptionVars>>

RouteEnroll(project, outcome, cookie, token, service) ==
    LET r == EnrollResult(login_check, project, outcome, cookie, service)
    IN /\ ret' = [op |-> "/enroll", project |-> project, outcome |-> outcome,
                  cookie |-> cookie, service |-> service,
                  response |-> r.response, invoked |-> r.invoked,
                  args |-> IF r.invoked
                           THEN <<project, Escape(cookie["value"]),
                                  ProvidedToken(token)>>
                           ELSE <<>>]
       /\ UNCHANGED <<trackerVars, celeryVars, callers, receptionVars>>

\* Reception.__init__, lines 17-27: demoMode is read from the configuration
InitReception ==
    /\ jobs = EmptyMap
    /\ messages = EmptyMap
    /\ on_complete = EmptyMap
    /\ backend = [id \in TaskIds |-> NoMeta]
    /\ active = [w \in Workers |-> <<>>]
    /\ stats = {}
    /\ callers = NoCallers
    /\ demoMode \in BOOLEAN
    /\ login_check = "None"
    /\ ret = [op |-> "init"]

NextReception ==
    \/ \E fun \in LoginFuns : AddLoginCheckFun(fun)
    \/ \E outcome \in Outcomes : LoginCheck(outcome)
    \/ \E outcome \in Outcomes, cookie \in Cookies :
          RouteProjects(outcome, cookie)
    \/ \E outcome \in Outcomes, superOutcome \in Outcomes, cookie \in Cookies :
          RouteGetProjects(outcome, superOutcome, cookie)
    \/ \E project \in Projects, outcome \in Outcomes, cookie \in Cookies,
          token \in Tokens, service \in Outcomes :
          RouteEnroll(project, outcome, cookie, token, service)

SpecReception == InitReception /\ [][NextReception]_vars

-----------------------------------------------------------------------------
(* Request threads: each asks task_id for an identifier, submits a job      *)
(* under it and registers the job.  The tracker takes no lock, so the steps *)
(* of different threads interleave.                                         *)

Threads == {"c1", "c2"}
NoId == <<>>
Idle == [pc |-> "idle", project |-> "", id |-> NoId]

\* task_id is entered
CallTaskId(c, project) ==
    /\ callers[c].pc = "idle"
    /\ callers' = [callers EXCEPT ![c] =
                      [pc |-> "task_id", project |-> project, id |-> NoId]]
    /\ ret' = [op |-> "call", caller |-> c]
    /\ UNCHANGED <<trackerVars, celeryVars, receptionVars>>

\* line 205: a candidate is generated
TaskIdDraw(c, u) ==
    /\ callers[c].pc = "task_id"
    /\ callers' = [callers EXCEPT ![c].pc = "check",
                                  ![c].id = MkId(callers[c].project, u)]
    /\ ret' = [op |-> "draw", caller |-> c]
    /\ UNCHANGED <<trackerVars, celeryVars, receptionVars>>

\* lines 206-207: the candidate is not in use and is returned
TaskIdReturn(c) ==
    /\ callers[c].pc = "check"
    /\ IdUnused(jobs, callers[c].project, callers[c].id)
    /\ callers' = [callers EXCEPT ![c].pc = "got"]
    /\ ret' = [op |-> "task_id", caller |-> c,
               project |-> callers[c].project, result |-> callers[c].id]
    /\ UNCHANGED <<trackerVars, celeryVars, receptionVars>>

\* lines 204-206: the candidate is in use, the loop draws again
TaskIdRetry(c) ==
    /\ callers[c].pc = "check"
    /\ ~IdUnused(jobs, callers[c].project, callers[c].id)
    /\ callers' = [callers EXCEPT ![c].pc = "task_id", ![c].id = NoId]
    /\ ret' = [op |-> "retry", caller |-> c]
    /\ UNCHANGED <<trackerVars, celeryVars, receptionVars>>

\* register_job, lines 162-165, with the job submitted under the identifier
RegisterAppend(c) ==
    /\ callers[c].pc = "got"
    /\ NumHandles(jobs) < MaxJobs
    /\ jobs' = RegisterJobJobs(jobs, callers[c].project,
                               AsyncResult(callers[c].id))
    /\ callers' = [callers EXCEPT ![c].pc = "registering"]
    /\ ret' = [op |-> "append", caller |-> c]
    /\ UNCHANGED <<messages, on_complete, celeryVars, receptionVars>>

\* register_job, lines 167-197, after the broadcast was sent
RegisterRecord(c, taskType) ==
    /\ callers[c].pc = "registering"
    /\ messages' = RegisterJobMessages(messages, callers[c].project,
                                       AsyncResult(callers[c].id), taskType,
                                       Now(jobs))
    /\ on_complete' = RegisterJobCallback(on_complete,
                                          AsyncResult(callers[c].id), "None")
    /\ callers' = [callers EXCEPT ![c] = Idle]
    /\ ret' = [op |-> "register_job", caller |-> c]
    /\ UNCHANGED <<jobs, celeryVars, receptionVars>>

InitConc ==
    /\ jobs = EmptyMap
    /\ messages = EmptyMap
    /\ on_complete = EmptyMap
    /\ backend = [id \in TaskIds |-> NoMeta]
    /\ active = [w \in Workers |-> <<>>]
    /\ stats = {}
    /\ callers = [c \in Threads |-> Idle]
    /\ demoMode = FALSE
    /\ login_check = "None"
    /\ ret = [op |-> "init"]

NextConc ==
    \/ \E c \in Threads, project \in Projects : CallTaskId(c, project)
    \/ \E c \in Threads, u \in UUIDs : TaskIdDraw(c, u)
    \/ \E c \in Threads : TaskIdReturn(c)
    \/ \E c \in Threads : TaskIdRetry(c)
    \/ \E c \in Threads : RegisterAppend(c)
    \/ \E c \in Threads, taskType \in TaskTypes : RegisterRecord(c, taskType)

SpecConc == InitConc /\ [][NextConc]_vars

-----------------------------------------------------------------------------
(* The background loop run(), lines 264-283, one step per test or call.     *)
(* It runs in its own thread next to the request handlers, which register   *)
(* jobs and force sweeps.                                                   *)

\* not len(self.jobs)
NoJobs(js) == DOMAIN js = {}

\* where the loop stands
AtLoop(pc) == [run |-> [pc |-> pc]]

\* as the else branch would be with its commented lines 284-293 enabled: the
\* next job is taken off the list
RunPassJobs_Pop(js) ==
    LET p == CHOOSE q \in DOMAIN js : TRUE
    IN [js EXCEPT ![p] = SubSeq(@, 1, Len(@) - 1)]

\* lines 281-283: pass
RunPassJobs(js) == js

\* line 268: if not len(self.jobs)
RunFirstTest ==
    /\ callers["run"].pc = "first_test"
    /\ callers' = AtLoop(IF NoJobs(jobs) THEN "pollNow" ELSE "second_test")
    /\ ret' = [op |-> "run", step |-> "first_test"]
    /\ UNCHANGED <<trackerVars, celeryVars, receptionVars>>

\* line 270: self.pollNow()
RunPollNow ==
    LET r == PollNowResult(jobs, messages, stats, active, Now(jobs))
    IN /\ callers["run"].pc = "pollNow"
       /\ jobs' = r.jobs
       /\ messages' = r.messages
       /\ callers' = AtLoop("second_test")
       /\ ret' = [op |-> "run", step |-> "pollNow"]
       /\ UNCHANGED <<on_complete, celeryVars, receptionVars>>

\* line 272: if not len(self.jobs) ... else
RunSecondTest ==
    /\ callers["run"].pc = "second_test"
    /\ callers' = AtLoop(IF NoJobs(jobs) THEN "wait_test" ELSE "pass")
    /\ ret' = [op |-> "run", step |-> "second_test"]
    /\ UNCHANGED <<trackerVars, celeryVars, receptionVars>>

\* lines 274-278: if len(self.jobs): break
RunWaitTest ==
    /\ callers["run"].pc = "wait_test"
    /\ callers' = AtLoop(IF NoJobs(jobs) THEN "sleep" ELSE "first_test")
    /\ ret' = [op |-> "run", step |-> "wait_test"]
    /\ UNCHANGED <<trackerVars, celeryVars, receptionVars>>

\* line 279: time.sleep(10)
RunSleep ==
    /\ callers["run"].pc = "sleep"
    /\ callers' = AtLoop("wait_test")
    /\ ret' = [op |-> "run", step |-> "sleep"]
    /\ UNCHANGED <<trackerVars, celeryVars, receptionVars>>

\* lines 281-283: pass, and the outer loop starts over
RunPass ==
    /\ callers["run"].pc = "pass"
    /\ jobs' = RunPassJobs(jobs)
    /\ callers' = AtLoop("first_test")
    /\ ret' = [op |-> "run", step |-> "pass"]
    /\ UNCHANGED <<messages, on_complete, celeryVars, receptionVars>>

Run ==
    \/ RunFirstTest
    \/ RunPollNow
    \/ RunSecondTest
    \/ RunWaitTest
    \/ RunSleep
    \/ RunPass

InitRun ==
    /\ jobs = EmptyMap
    /\ messages = EmptyMap
    /\ on_complete = EmptyMap
    /\ backend = [id \in TaskIds |-> NoMeta]
    /\ active = [w \in Workers |-> <<>>]
    /\ stats = {}
    /\ callers = AtLoop("first_test")
    /\ demoMode = FALSE
    /\ login_check = "None"
    /\ ret = [op |-> "init"]

\* the loop, the workers, sweeps forced by request handlers, and each job
\* registered once, under its own project
NextRun ==
    \/ Run
    \/ Workers_
    \/ PollNow(Now(jobs))
    \/ \E project \in Projects, u \in UUIDs, taskType \in TaskTypes :
          /\ MkId(project, u) \notin DOMAIN on_complete
          /\ RegisterJob(project, AsyncResult(MkId(project, u)), taskType,
                         "None", Now(jobs))

\* the loop's thread is scheduled again and again
SpecRun == InitRun /\ [][NextRun]_vars /\ WF_vars(Run)

-----------------------------------------------------------------------------
(* poll_status in a request thread, one step per turn of the loop of        *)
(* __poll_tasks (each turn asks the backend over the network), next to      *)
(* threads that register jobs and sweep the workers.  A dict iterator       *)
(* raises RuntimeError from its next turn on once the dict has changed size.*)

Resting == [poll |-> [pc |-> "idle"]]

\* poll_status is entered, line 149
PollStatusCall(project) ==
    /\ callers["poll"].pc = "idle"
    /\ callers' = [poll |-> [pc |-> "pass_start", project |-> project,
                             pass |-> "first"]]
    /\ ret' = [op |-> "call", project |-> project]
    /\ UNCHANGED <<trackerVars, celeryVars, receptionVars>>

\* __poll_tasks, lines 110-116: the early return, or the iterator over the
\* keys of messages[project]
PassStart ==
    LET c == callers["poll"]
    IN /\ c.pc = "pass_start"
       /\ callers' =
             IF c.project \notin DOMAIN messages
             THEN [poll |-> [pc |-> "pass_end", project |-> c.project,
                             pass |-> c.pass, status |-> EmptyMap,
                             task_ongoing |-> FALSE]]
             ELSE [poll |-> [pc |-> "iter", project |-> c.project,
                             pass |-> c.pass, status |-> EmptyMap,
                             task_ongoing |-> FALSE,
                             keys |-> DOMAIN messages[c.project],
                             todo |-> DOMAIN messages[c.project]]]
       /\ ret' = [op |-> "__poll_tasks", step |-> "start"]
       /\ UNCHANGED <<trackerVars, celeryVars, receptionVars>>

\* the dict has the size it had when the iterator was made
SameSize(c) ==
    Cardinality(DOMAIN messages[c.project]) = Cardinality(c.keys)

\* lines 116-145: one turn of the loop, for the next key
PassNext(key) ==
    LET c == callers["poll"]
        msg == backend[key]
    IN /\ c.pc = "iter"
       /\ SameSize(c)
       /\ key \in c.todo
       /\ callers' =
             [callers EXCEPT
                !["poll"].todo = @ \ {key},
                !["poll"].status =
                    IF msg = NoMeta THEN @
                    ELSE Put(@, key,
                             PollTasksEntry(messages[c.project][key], msg)),
                !["poll"].task_ongoing =
                    IF msg = NoMeta THEN @ ELSE @ \/ ~Ready(backend, key)]
       /\ backend' = IF msg # NoMeta /\ Ready(backend, key)
                     THEN Forget(backend, key)
                     ELSE backend
       /\ ret' = [op |-> "__poll_tasks", step |-> "next"]
       /\ UNCHANGED <<trackerVars, active, stats, receptionVars>>

\* line 116: the iterator is exhausted, line 146 returns
PassExhausted ==
    LET c == callers["poll"]
    IN /\ c.pc = "iter"
       /\ SameSize(c)
       /\ c.todo = {}
       /\ callers' = [callers EXCEPT !["poll"].pc = "pass_end"]
       /\ ret' = [op |-> "__poll_tasks", step |-> "exhausted"]
       /\ UNCHANGED <<trackerVars, celeryVars, receptionVars>>

\* line 116: the dict changed size during the iteration; the RuntimeError
\* leaves __poll_tasks and poll_status
PassRaise ==
    LET c == callers["poll"]
    IN /\ c.pc = "iter"
       /\ ~SameSize(c)
       /\ callers' = Resting
       /\ ret' = [op |-> "poll_status", project |-> c.project,
                  outcome |-> "RuntimeError"]
       /\ UNCHANGED <<trackerVars, celeryVars, receptionVars>>

\* poll_status, lines 150-157, after a pass
PassEnd ==
    LET c == callers["poll"]
    IN /\ c.pc = "pass_end"
       /\ IF c.pass = "first" /\ ~c.task_ongoing
          THEN /\ callers' = [poll |-> [pc |-> "sweep", project |-> c.project]]
               /\ ret' = [op |-> "__poll_tasks", step |-> "end"]
          ELSE /\ callers' = Resting
               /\ ret' = [op |-> "poll_status", project |-> c.project,
                          outcome |-> "returned", result |-> c.status]
       /\ UNCHANGED <<trackerVars, celeryVars, receptionVars>>

\* poll_status, line 155: the sweep before the second pass
PassSweep ==
    LET c == callers["poll"]
        r == PollWorkerStatusResult(messages, backend, c.project, stats,
                                    active, NoScheduled, Now(jobs))
    IN /\ c.pc = "sweep"
       /\ messages' = r.messages
       /\ backend' = r.backend
       /\ callers' = [poll |-> [pc |-> "pass_start", project |-> c.project,
                                pass |-> "second"]]
       /\ ret' = [op |-> "poll_worker_status", project |-> c.project,
                  result |-> r.workerStatus]
       /\ UNCHANGED <<jobs, on_complete, active, stats, receptionVars>>

InitIter ==
    /\ jobs = EmptyMap
    /\ messages = EmptyMap
    /\ on_complete = EmptyMap
    /\ backend = [id \in TaskIds |-> NoMeta]
    /\ active = [w \in Workers |-> <<>>]
    /\ stats = {}
    /\ callers = Resting
    /\ demoMode = FALSE
    /\ login_check = "None"
    /\ ret = [op |-> "init"]

\* one polling thread; one worker running the train task of p1; each job is
\* registered under its own project with the type its name declares
NextIter ==
    \/ \E project \in Projects : PollStatusCall(project)
    \/ PassStart
    \/ \E key \in TaskIds : PassNext(key)
    \/ PassExhausted
    \/ PassRaise
    \/ PassEnd
    \/ PassSweep
    \/ WorkerConnect(PollWorker)
    \/ WorkerDisconnect(PollWorker)
    \/ TaskStart(PollWorker, PollTask)
    \/ TaskEnd(PollWorker)
    \/ \E id \in TaskIds, report \in SweepReports : BackendStore(id, report)
    \/ \E project \in Projects, u \in UUIDs :
          RegisterJob(project, AsyncResult(MkId(project, u)),
                      TypeOfName(NameOf(u)), "None", Now(jobs))
    \/ PollNow(Now(jobs))

SpecIter == InitIter /\ [][NextIter]_vars

-----------------------------------------------------------------------------
(* Properties *)

Terminal == {SUCCESS, FAILURE}

\* the records of project p that a step leaves as they were
Kept(p) ==
    \A k \in Tracked(messages, p) :
        k \in Tracked(messages', p) /\ messages'[p][k] = messages[p][k]

\* the tables of every project but p are left as they were
OthersKept(p) ==
    /\ DOMAIN messages' = (DOMAIN messages) \cup {p}
    /\ \A q \in (DOMAIN messages) \ {p} : messages'[q] = messages[q]

\* C1: task_id returns an identifier that is not the id of a handle of the
\* project's job list, and no two jobs end up registered under the same
\* returned identifier, whatever the interleaving of the callers.
C1_TaskIdNeverInUse ==
    /\ ret.op = "task_id" => ret.result \notin HandleIds(jobs, ret.project)
    /\ \A p \in DOMAIN jobs :
          \A i, j \in 1..Len(jobs[p]) :
              i # j => jobs[p][i]["id"] # jobs[p][j]["id"]

\* C2: task_ongoing(project, taskType) returns true exactly when some record
\* of that project and type has a status other than success and failure,
\* whatever the other types and projects hold; once poll_status has reported
\* success or failure for every record of that project and type, it returns
\* false.
C2_TaskOngoing ==
    [][ret'.op = "task_ongoing" =>
        LET p == ret'.project
            ofType == {k \in Tracked(messages', p) :
                          messages'[p][k]["type"] = ret'.taskType}
        IN /\ ret'.result <=>
                  \E k \in ofType : messages'[p][k]["status"] \notin Terminal
           /\ (/\ ret.op = "poll_status"
               /\ ret.project = p
               /\ ofType # {}
               /\ \A k \in ofType :
                     /\ k \in DOMAIN ret.result
                     /\ ret.result[k]["status"] \in Terminal)
                 => ~ret'.result]_vars

\* C3: register_job with a job without children creates exactly one record,
\* at the job's id, pending and of the given type, when the id is not tracked
\* in the project; when it is tracked, the table is left as it was.
C3_RegisterSingle ==
    [][(ret'.op = "register_job" /\ ~HasChildren(ret'.job)) =>
        LET p == ret'.project
            id == ret'.job["id"]
        IN /\ OthersKept(p)
           /\ Kept(p)
           /\ IF id \notin Tracked(messages, p)
              THEN /\ DOMAIN messages'[p] = Tracked(messages, p) \cup {id}
                   /\ messages'[p][id]["status"] = PENDING
                   /\ messages'[p][id]["type"] = ret'.taskType
              ELSE DOMAIN messages'[p] = Tracked(messages, p)]_vars

\* the same job was registered twice, the second time with another type, and
\* the record of the first registration is the one in the table
C3_Witness ==
    /\ ret.op = "register_job"
    /\ ~HasChildren(ret.job)
    /\ ~ret.fresh
    /\ Cardinality({i \in 1..Len(jobs[ret.project]) :
                       jobs[ret.project][i] = ret.job}) = 2
    /\ messages[ret.project][ret.job["id"]]["type"] # ret.taskType
    /\ messages[ret.project][ret.job["id"]]["submitted"] = 0
    /\ messages[ret.project][ret.job["id"]]["meta"] = [message |-> SendingJob]

\* C4: register_job with a group of n child ids, none tracked in the project,
\* adds exactly n records, one per child, each pending and of the given type;
\* none at the group's own id; the other projects' records do not change.
C4_RegisterGroup ==
    [][(/\ ret'.op = "register_job"
        /\ HasChildren(ret'.job)
        /\ ret'.job["children"] \cap Tracked(messages, ret'.project) = {}) =>
        LET p == ret'.project
            ch == ret'.job["children"]
        IN /\ OthersKept(p)
           /\ Kept(p)
           /\ DOMAIN messages'[p] = Tracked(messages, p) \cup ch
           /\ Cardinality(DOMAIN messages'[p]) =
                  Cardinality(Tracked(messages, p)) + Cardinality(ch)
           /\ \A k \in ch : /\ messages'[p][k]["status"] = PENDING
                            /\ messages'[p][k]["type"] = ret'.taskType]_vars

\* a group of two untracked children was registered in a project that
\* already tracked a task: three records, none at the group's id
C4_Witness ==
    /\ ret.op = "register_job"
    /\ HasChildren(ret.job)
    /\ ret.fresh
    /\ Cardinality(ret.job["children"]) = 2
    /\ ret.job["children"] \subseteq Tracked(messages, ret.project)
    /\ Cardinality(Tracked(messages, ret.project)) = 3
    /\ ret.job["id"] \notin Tracked(messages, ret.project)

\* C5: a pollNow that directly follows a pollNow, the workers unchanged in
\* between, changes neither jobs nor messages.
C5_PollNowTwice ==
    [][(ret.op = "pollNow" /\ ret'.op = "pollNow") =>
        (jobs' = jobs /\ messages' = messages)]_vars

\* a sweep has run with two tasks active on two connected workers, and each
\* has one record and one handle
C5_Witness ==
    /\ ret.op = "pollNow"
    /\ stats = Workers
    /\ \A w \in Workers : Len(active[w]) = 1
    /\ \A w \in Workers :
          LET t == active[w][1]
          IN /\ t["id"] \in Tracked(messages, t["routing_key"])
             /\ jobs[t["routing_key"]] = <<AsyncResult(t["id"])>>

\* C6: when the backend holds no meta for a tracked task, poll_status leaves
\* the task out of the returned map and its record as it was, and reports the
\* project's other tracked tasks, those the backend holds meta for.
C6_NoMetaSkipped ==
    [][ret'.op = "poll_status" =>
        LET p == ret'.project
            missing == {k \in Tracked(messages, p) : backend[k] = NoMeta}
        IN missing # {} =>
              /\ \A k \in missing :
                    /\ k \notin DOMAIN ret'.result
                    /\ messages'[p][k] = messages[p][k]
              /\ \A k \in Tracked(messages, p) \ missing :
                    k \in DOMAIN ret'.result]_vars

\* C7: /<project>/enroll answers a request the login check rejects with a
\* redirect to / and does not call the service; a logged-in request with a
\* username gets 401 when the service reports failure and a redirect to
\* /<project>/interface when it reports success; everything else gets 400.
C7_EnrollOutcome ==
    ret.op = "/enroll" =>
        LET installed == login_check # "None"
            rejected == installed /\ ret.outcome = "False"
            served == installed /\ ret.outcome = "True" /\ ret.cookie["set"]
        IN /\ ret.invoked <=> served
           /\ rejected => ret.response = Redirect(<<"/">>)
           /\ (served /\ ret.service = "False") => ret.response = Abort(401)
           /\ (served /\ ret.service = "True") =>
                 ret.response = Redirect(<<"/", ret.project, "/interface">>)
           /\ (~rejected /\ ~(served /\ ret.service \in {"True", "False"})) =>
                 ret.response = Abort(400)

\* a logged-in request whose enrollment the service refused got 401
C7_Witness ==
    /\ ret.op = "/enroll"
    /\ login_check # "None"
    /\ ret.outcome = "True"
    /\ ret.cookie["set"]
    /\ ret.service = "False"
    /\ ret.invoked
    /\ ret.response = Abort(401)

\* C8: in demo mode no login check is installed and every login check is
\* true: loginCheck yields true, /getProjects answers and /enroll goes on to
\* the enrollment as for a logged-in user.
C8_DemoChecksTrue ==
    demoMode =>
        /\ login_check = "None"
        /\ ret.op = "loginCheck" => ret.result = "True"
        /\ ret.op = "/getProjects" => ret.response.status = 200
        /\ (ret.op = "/enroll" /\ ret.cookie["set"]) => ret.invoked

\* C9: route / renders "Demo mode" in demo mode; otherwise the escaped
\* username cookie only when an installed login check returns true, and the
\* empty name when none is installed, it returns false or it raises; the
\* route always renders.
C9_DisplayName ==
    ret.op = "/" =>
        /\ ret.response.status = 200
        /\ demoMode => ret.response.username = DemoName
        /\ ~demoMode =>
              LET loggedIn == login_check # "None" /\ ret.outcome = "True"
              IN /\ ~loggedIn => ret.response.username = NoName
                 /\ (loggedIn /\ ret.cookie["set"]) =>
                       ret.response.username = Escape(ret.cookie["value"])
                 /\ (loggedIn /\ ~ret.cookie["set"]) =>
                       ret.response.username = NoName

\* demo mode rendered its name for a request that carried a cookie
C9_Witness ==
    /\ ret.op = "/"
    /\ demoMode
    /\ ret.cookie["set"]
    /\ ret.cookie["value"] # <<>>
    /\ ret.response = Rendered(DemoName)

NoMarkup(text) == \A i \in 1..Len(text) : text[i] \notin {"<", ">"}

\* C10: in the map poll_status returns, the meta of a task the backend
\* reports as failed is the escaped failure detail when the report has one
\* and "an unknown error occurred" otherwise, never the result payload; the
\* meta of every other task is the result payload.
C10_FailureMeta ==
    [][ret'.op = "poll_status" =>
        \A k \in DOMAIN ret'.result :
            LET msg == backend[k]
                meta == ret'.result[k]["meta"]
            IN /\ ret'.result[k]["status"] = msg["status"]
               /\ IF msg["status"] = FAILURE
                  THEN /\ meta # msg["result"]
                       /\ NoMarkup(meta["message"])
                       /\ IF "meta" \in DOMAIN msg
                          THEN meta = [message |-> Escape(Str(msg["meta"]))]
                          ELSE meta = [message |-> UnknownError]
                  ELSE meta = msg["result"]]_vars

\* poll_status returned a failed task whose detail <a> reads &lt;a&gt;
C10_Witness ==
    /\ ret.op = "poll_status"
    /\ \E k \in DOMAIN ret.result :
          /\ ret.result[k]["status"] = FAILURE
          /\ ret.result[k]["meta"] =
                 [message |-> <<"&", "l", "t", ";", "a", "&", "g", "t", ";">>]

\* C11: after poll_status(project) has read the backend's meta for a tracked
\* task, the task's record in messages[project] carries the status and the
\* meta the backend reported.
C11_RecordsRefreshed ==
    [][ret'.op = "poll_status" =>
        LET p == ret'.project
        IN \A k \in Tracked(messages, p) :
              backend[k] # NoMeta =>
                  /\ messages'[p][k]["status"] = backend[k]["status"]
                  /\ messages'[p][k]["meta"] = PollTasksInfo(backend[k])]_vars

\* C12: the map poll_status(project) returns has an entry, with the
\* backend's status, for every tracked task of the project the backend held
\* meta for when the call started, also when no task is ongoing.
C12_FullStatusMap ==
    [][ret'.op = "poll_status" =>
        LET p == ret'.project
        IN \A k \in Tracked(messages, p) :
              backend[k] # NoMeta =>
                  /\ k \in DOMAIN ret'.result
                  /\ ret'.result[k]["status"] = backend[k]["status"]]_vars

\* C13: a tracker operation releases the backend's result of a task only if
\* the task is ready, and poll_status releases the result of every tracked
\* task of the project that is ready.
C13_ForgetOnlyReady ==
    [][ret'.op # "celery" =>
        /\ \A id \in TaskIds :
              backend'[id] # backend[id] =>
                  Ready(backend, id) /\ backend'[id] = NoMeta
        /\ ret'.op = "poll_status" =>
              \A k \in Tracked(messages, ret'.project) :
                  Ready(backend, k) => backend'[k] = NoMeta]_vars

\* poll_status reported a finished task, whose result is released, next to
\* an unfinished one, whose meta the backend still holds
C13_Witness ==
    /\ ret.op = "poll_status"
    /\ \E k \in DOMAIN ret.result :
          /\ ret.result[k]["status"] \in Terminal
          /\ backend[k] = NoMeta
    /\ \E k \in DOMAIN ret.result :
          /\ ret.result[k]["status"] \notin Terminal
          /\ backend[k] # NoMeta

\* a task is active on a connected worker
TaskAtWorker == \E w \in stats : active[w] # <<>>

\* C14: when a task is active on a connected worker and stays so, the
\* background loop eventually has it in jobs, whether or not any other
\* operation is called.
C14_RunRetries == (<>[]TaskAtWorker) => <>(~NoJobs(jobs))

HandlesOf(p, id) ==
    IF p \in DOMAIN jobs
    THEN {i \in 1..Len(jobs[p]) : jobs[p][i]["id"] = id}
    ELSE {}

\* C17: a job registered once has exactly one handle in its project's list
\* and its record is the one the registration wrote, of the registered type,
\* however the registration and the sweeps that see its task are ordered.
C17_SingleHandle ==
    /\ \A id \in DOMAIN on_complete :
          /\ Cardinality(HandlesOf(id[1], id)) = 1
          /\ messages[id[1]][id]["meta"] = [message |-> SendingJob]
    /\ ret.op = "register_job" =>
          messages[ret.project][ret.job["id"]]["type"] = ret.taskType

\* the tasks active on the connected workers
Observed ==
    UNION {{active[w][i] : i \in 1..Len(active[w])} : w \in stats}

\* C16: poll_worker_status(project) leaves jobs, on_complete and every
\* existing record as they were; with a worker connected, every task active
\* on a connected worker then has a record under its own routing key,
\* whatever project was asked for, and the records it adds are pending
\* records of such tasks; with no worker connected, the snapshot is empty and
\* messages is unchanged.
C16_SweepRecords ==
    [][ret'.op = "poll_worker_status" =>
        /\ jobs' = jobs
        /\ on_complete' = on_complete
        /\ \A p \in DOMAIN messages : Kept(p)
        /\ IF stats # {}
           THEN /\ \A t \in Observed :
                      t["id"] \in Tracked(messages', t["routing_key"])
                /\ \A p \in DOMAIN messages' :
                      \A k \in DOMAIN messages'[p] \ Tracked(messages, p) :
                          /\ messages'[p][k]["status"] = PENDING
                          /\ \E t \in Observed :
                                t["id"] = k /\ t["routing_key"] = p
           ELSE /\ ret'.result = EmptyMap
                /\ messages' = messages]_vars

\* poll_worker_status was asked for one project while a connected worker
\* runs a task of the other: the task has a pending record and no handle,
\* and a registered record is still as the registration wrote it
C16_Witness ==
    /\ ret.op = "poll_worker_status"
    /\ \E t \in Observed :
          /\ t["routing_key"] # ret.project
          /\ t["id"] \in Tracked(messages, t["routing_key"])
          /\ messages[t["routing_key"]][t["id"]]["meta"] =
                 [message |-> JobAtWorker]
          /\ t["id"] \notin HandleIds(jobs, t["routing_key"])
    /\ \E p \in DOMAIN messages : \E k \in DOMAIN messages[p] :
          messages[p][k]["meta"] = [message |-> SendingJob]

\* C18: while a pass of poll_status iterates over messages[project], the
\* key set of messages[project] is the one the pass started with, and
\* poll_status returns instead of raising.
C18_NoInsertDuringPass ==
    /\ callers["poll"].pc = "iter" =>
          DOMAIN messages[callers["poll"].project] = callers["poll"].keys
    /\ ret.op = "poll_status" => ret.outcome = "returned"

====
